---------------------------- MODULE Spec2Model ----------------------------
(***************************************************************************)
(* Weather ingestion pipeline (weather_pipeline/src): the retrying fetch   *)
(* client, the field extractor, the record normaliser, the ingestion loop  *)
(* of main.py and the partitioned writer of storage.py.                    *)
(*                                                                         *)
(* Values that Python leaves dynamically typed (JSON values, Optional      *)
(* fields, DataFrame cells) are tagged records [t |-> tag, v |-> value].   *)
(* Text that the code builds with f-strings (paths, file names, labels)    *)
(* is built here as text too.                                              *)
(***************************************************************************)
EXTENDS Integers, Sequences, FiniteSets, TLC

(* ------------------------------ bounds --------------------------------- *)

\* longest key path handed to get_field by a direct caller
MaxPath == 3
\* largest timezone offset handed to timezone_str, in quarter hours
MaxOffsetQuarters == 56
\* largest wind direction handed to wind_direction_compass, in degrees
MaxDeg == 360
\* largest configured api.max_retries explored (0 is explored as well)
MaxRetries == 2
\* longest validated city list explored
MaxCities == 2
\* longest record batch handed to Storage.write by a direct caller
MaxBatch == 2
\* number of Storage.write calls a direct caller makes on one Storage
MaxWrites == 2
\* last instant of the wall clock, in half seconds
MaxClock == 2

(* --------------------------- tagged values ----------------------------- *)

JNull == [t |-> "null", v |-> 0]
JInt(n) == [t |-> "int", v |-> n]
JStr(s) == [t |-> "str", v |-> s]
JDict(f) == [t |-> "dict", v |-> f]
JList(s) == [t |-> "list", v |-> s]
JDt(d) == [t |-> "datetime", v |-> d]
NaT == [t |-> "NaT", v |-> 0]

\* a path segment of get_field: a string key or an integer index
K(s) == [t |-> "str", v |-> s]
I(n) == [t |-> "int", v |-> n]

(* ------------------------ api_client.get_field ------------------------- *)

RECURSIVE GetFieldFrom(_, _, _, _)
GetFieldFrom(d, keys, i, default) ==
    IF i > Len(keys) THEN d
    ELSE LET key == keys[i] IN
         IF d.t = "dict" /\ key.t = "str" /\ key.v \in DOMAIN d.v
           THEN GetFieldFrom(d.v[key.v], keys, i + 1, default)
         ELSE IF d.t = "list" /\ key.t = "int" /\ 0 <= key.v /\ key.v < Len(d.v)
           THEN GetFieldFrom(d.v[key.v + 1], keys, i + 1, default)
         ELSE default

\* get_field returning None, not the caller's default, for a missing level
get_fieldDefaultNone(d, keys, default) == GetFieldFrom(d, keys, 1, JNull)

get_field(d, keys, default) == GetFieldFrom(d, keys, 1, default)

(* ------------------- datetime.fromtimestamp(x, tz=utc) ----------------- *)

\* proleptic Gregorian date of a day count since 1970-01-01
CivilFromDays(days) ==
    LET z == days + 719468
        era == z \div 146097
        doe == z - era * 146097
        yoe == (doe - doe \div 1460 + doe \div 36524 - doe \div 146096) \div 365
        doy == doe - (365 * yoe + yoe \div 4 - yoe \div 100)
        mp == (5 * doy + 2) \div 153
        d == doy - (153 * mp + 2) \div 5 + 1
        m == IF mp < 10 THEN mp + 3 ELSE mp - 9
        y == yoe + era * 400 + (IF m <= 2 THEN 1 ELSE 0)
    IN [year |-> y, month |-> m, day |-> d]

DatetimeOf(ymd, h, mi, s) ==
    [year |-> ymd.year, month |-> ymd.month, day |-> ymd.day,
     hour |-> h, minute |-> mi, second |-> s]

\* [ok, v]: the aware UTC datetime, or the TypeError raised for a non-number
fromtimestamp(x) ==
    IF x.t = "int"
      THEN LET sod == x.v % 86400 IN
           [ok |-> TRUE, err |-> "",
            v |-> JDt(DatetimeOf(CivilFromDays(x.v \div 86400),
                                 sod \div 3600, (sod % 3600) \div 60, sod % 60))]
      ELSE [ok |-> FALSE, err |-> "TypeError", v |-> JNull]

(* ------------------------ models.WeatherRecord ------------------------- *)

\* The fields the model carries.  weather and temperature_current stand for
\* the pass-through fields (weather_description, the other temperatures,
\* cloudiness, wind_speed, humidity, pressure), which formatted_record copies
\* the same way.
WeatherRecord(city, country, timestamp, timezone_offset, weather, temperature_current, wind_direction_deg, sunrise, sunset, units) ==
    [city |-> city, country |-> country, timestamp |-> timestamp,
     timezone_offset |-> timezone_offset, weather |-> weather,
     temperature_current |-> temperature_current,
     wind_direction_deg |-> wind_direction_deg,
     sunrise |-> sunrise, sunset |-> sunset, units |-> units]

Ok(v) == [ok |-> TRUE, err |-> "", v |-> v]
Raise(e) == [ok |-> FALSE, err |-> e, v |-> JNull]

Pad2(n) == IF n < 10 THEN "0" \o ToString(n) ELSE ToString(n)

\* dt.strftime("%d-%m-%Y %H:%M:%S"); None has no strftime.  The text is kept
\* as its six printed fields, in the order the format prints them.
format_datetime(dt) ==
    IF dt.t = "datetime"
      THEN Ok([t |-> "text",
               v |-> <<dt.v.day, dt.v.month, dt.v.year,
                       dt.v.hour, dt.v.minute, dt.v.second>>])
      ELSE Raise("AttributeError")

Abs(n) == IF n < 0 THEN -n ELSE n

\* hours = offset // 3600 (floor division); None // 3600 is a TypeError
timezone_str(timezone_offset) ==
    IF timezone_offset.t # "int" THEN Raise("TypeError")
    ELSE LET hours == timezone_offset.v \div 3600 IN
         IF hours = 0 THEN Ok(JStr("UTC"))
         ELSE Ok(JStr("UTC" \o (IF hours > 0 THEN "+" ELSE "-")
                         \o ToString(Abs(hours))))

dirs16 ==
    << "North", "North-Northeast", "Northeast", "East-Northeast",
       "East", "East-Southeast", "Southeast", "South-Southeast",
       "South", "South-Southwest", "Southwest", "West-Southwest",
       "West", "West-Northwest", "Northwest", "North-Northwest" >>

\* int(num / den) in place of round: the fraction is dropped
RoundDown(num, den) == num \div den

\* Python's round(num / den) for den > 0: to the nearest integer, a tie to
\* the even one
RoundHalfEven(num, den) ==
    LET q == num \div den
        r2 == 2 * (num - q * den)
    IN IF r2 < den THEN q
       ELSE IF r2 > den THEN q + 1
       ELSE IF q % 2 = 0 THEN q ELSE q + 1

\* ix = round(deg / 22.5) % 16, deg / 22.5 being 2 * deg / 45
wind_direction_compass(wind_direction_deg) ==
    IF wind_direction_deg.t # "int" THEN Raise("TypeError")
    ELSE Ok(JStr(dirs16[(RoundHalfEven(2 * wind_direction_deg.v, 45) % 16) + 1]))

\* the unit suffix of field_with_units(name).split()[-1] (the degree sign of
\* the temperature units is left out of the text)
UnitOf(field_name, units) ==
    IF field_name \in {"temperature_current", "temperature_min",
                       "temperature_max", "temperature_feels_like"}
      THEN (IF units = "metric" THEN "C" ELSE IF units = "imperial" THEN "F" ELSE "K")
    ELSE IF field_name = "wind_speed"
      THEN (IF units \in {"metric", "default"} THEN "m/s" ELSE "mph")
    ELSE IF field_name \in {"humidity", "cloudiness"} THEN "%"
    ELSE IF field_name = "pressure" THEN "hPa"
    ELSE ""

\* The dict display is evaluated key by key, so the first failing entry is the
\* error of the call.  [ok, err, v]: v is the row.
formatted_record(r) ==
    LET ts == format_datetime(r.timestamp)
        tz == timezone_str(r.timezone_offset)
        wd == wind_direction_compass(r.wind_direction_deg)
        sr == format_datetime(r.sunrise)
        ss == format_datetime(r.sunset)
    IN IF ~ts.ok THEN Raise(ts.err)
       ELSE IF ~tz.ok THEN Raise(tz.err)
       ELSE IF ~wd.ok THEN Raise(wd.err)
       ELSE IF ~sr.ok THEN Raise(sr.err)
       ELSE IF ~ss.ok THEN Raise(ss.err)
       ELSE Ok([City |-> r.city, Country |-> r.country, Timestamp |-> ts.v,
                Timezone |-> tz.v, Weather |-> r.weather,
                TemperatureHeader |->
                    "Temperature_Current_(" \o UnitOf("temperature_current", r.units) \o ")",
                Temperature_Current |-> r.temperature_current,
                Wind_Direction |-> wd.v, Sunrise |-> sr.v, Sunset |-> ss.v])

(* --------------------------- storage.Storage --------------------------- *)

\* str.lower() on the tags the model configures
Lower(s) ==
    CASE s = "JSON" -> "json"
      [] s = "Hive_Compact" -> "hive_compact"
      [] OTHER -> s

base_path == "data"

\* lexicographic a <= b on integer tuples of one length
RECURSIVE TupleLeqFrom(_, _, _)
TupleLeqFrom(a, b, i) ==
    IF i > Len(a) THEN TRUE
    ELSE IF a[i] < b[i] THEN TRUE
    ELSE IF a[i] > b[i] THEN FALSE
    ELSE TupleLeqFrom(a, b, i + 1)

TupleLeq(a, b) == TupleLeqFrom(a, b, 1)

\* pd.to_datetime(text, format="%d-%m-%Y %H:%M:%S", errors="coerce"): the
\* naive datetime64[ns] the text denotes, NaT when it lies outside the range
\* of a nanosecond timestamp (1677-09-21 00:12:44 .. 2262-04-11 23:47:16)
to_datetime(text) ==
    LET f == text.v
        ymdhms == <<f[3], f[2], f[1], f[4], f[5], f[6]>>
    IN IF TupleLeq(<<1677, 9, 21, 0, 12, 44>>, ymdhms)
          /\ TupleLeq(ymdhms, <<2262, 4, 11, 23, 47, 16>>)
         THEN JDt([year |-> f[3], month |-> f[2], day |-> f[1],
                   hour |-> f[4], minute |-> f[5], second |-> f[6]])
         ELSE NaT

\* datetime.now(timezone.utc).strftime('%Y%m%d_%H%M%S') at clock instant t
\* (half seconds since 1970-01-01T00:00:00Z): the sub-second part is dropped
run_ts_at(t) ==
    LET secs == t \div 2
        d == CivilFromDays(secs \div 86400)
        sod == secs % 86400
    IN ToString(d.year) \o Pad2(d.month) \o Pad2(d.day) \o "_"
       \o Pad2(sod \div 3600) \o Pad2((sod % 3600) \div 60) \o Pad2(sod % 60)

\* the order of str values that groupby sorts by (code point order), on the
\* country codes and city names of the model
Collation == <<"ES", "Madrid", "PT", "Toledo", "US">>
StrRank(s) == CHOOSE i \in 1..Len(Collation) : Collation[i] = s

\* df after dropna: the rows in batch order, each with its parsed _ts
DropNa(data) ==
    LET withTs == [i \in 1..Len(data) |->
                     [row |-> data[i], _ts |-> to_datetime(data[i].Timestamp)]]
    IN SelectSeq(withTs, LAMBDA x : x._ts.t # "NaT")

DateOf(x) == <<x._ts.v.year, x._ts.v.month, x._ts.v.day>>

\* GroupKey with every grouping layout grouping by the date alone
GroupKeyDateOnly(layout, x) == DateOf(x)

\* the group key of a row under a grouping layout, as the tuple groupby sorts
GroupKey(layout, x) ==
    CASE layout = "date" -> DateOf(x)
      [] layout = "date_country" -> DateOf(x) \o <<StrRank(x.row.Country.v)>>
      [] layout = "country_date" -> <<StrRank(x.row.Country.v)>> \o DateOf(x)
      [] layout = "city_date" -> <<StrRank(x.row.City.v)>> \o DateOf(x)

DateDir(d) ==
    <<"year=" \o ToString(d[1]), "month=" \o ToString(d[2]), "day=" \o ToString(d[3])>>

\* the directory (its segments under base_path) a row's group is written to
DirOf(layout, x) ==
    CASE layout = "date" -> DateDir(DateOf(x))
      [] layout = "date_country" -> DateDir(DateOf(x))
      [] layout = "country_date" -> <<x.row.Country.v>> \o DateDir(DateOf(x))
      [] layout = "hive_compact" ->
           DateDir(DateOf(x)) \o <<x.row.Country.v, x.row.City.v>>
      [] layout = "city_date" -> <<x.row.City.v>> \o DateDir(DateOf(x))

FileNameOf(layout, x, run_ts, fmt) ==
    CASE layout \in {"date", "country_date", "city_date"} ->
           "weather_" \o run_ts \o "." \o fmt
      [] layout = "date_country" ->
           x.row.Country.v \o "_weather_" \o run_ts \o "." \o fmt
      [] layout = "hive_compact" ->
           x.row.Country.v \o "_" \o x.row.City.v \o "_" \o run_ts \o "." \o fmt

\* Path(base) / seg1 / ... / segk, for k segments
RECURSIVE JoinPath(_, _, _)
JoinPath(base, segs, k) ==
    IF k = 0 THEN base ELSE JoinPath(base, segs, k - 1) \o "/" \o segs[k]

\* path.mkdir(parents=True, exist_ok=True): the directory and its ancestors
MkdirParents(ds, segs) ==
    ds \cup {JoinPath(base_path, segs, k) : k \in 0..Len(segs)}

\* the keys of the groups in the order groupby yields them (sorted)
RECURSIVE SortKeys(_)
SortKeys(ks) ==
    IF ks = {} THEN <<>>
    ELSE LET m == CHOOSE k \in ks : \A o \in ks : TupleLeq(k, o)
         IN <<m>> \o SortKeys(ks \ {m})

\* Targets with hive_compact saving the whole frame at each row's path
TargetsWholeFrame(layout, df, run_ts, fmt) ==
    IF layout = "hive_compact"
      THEN [i \in 1..Len(df) |->
              [dir |-> DirOf(layout, df[i]),
               name |-> FileNameOf(layout, df[i], run_ts, fmt),
               rows |-> [n \in 1..Len(df) |-> df[n].row]]]
      ELSE LET keys == SortKeys({GroupKey(layout, df[i]) : i \in 1..Len(df)})
           IN [j \in 1..Len(keys) |->
                 LET grp == SelectSeq(df, LAMBDA x : GroupKey(layout, x) = keys[j])
                 IN [dir |-> DirOf(layout, grp[1]),
                     name |-> FileNameOf(layout, grp[1], run_ts, fmt),
                     rows |-> [n \in 1..Len(grp) |-> grp[n].row]]]

\* what the layout branch iterates over: one [dir, name, rows] per group
\* (grouping layouts, in key order) or per row (hive_compact, in row order)
Targets(layout, df, run_ts, fmt) ==
    IF layout = "hive_compact"
      THEN [i \in 1..Len(df) |->
              [dir |-> DirOf(layout, df[i]),
               name |-> FileNameOf(layout, df[i], run_ts, fmt),
               rows |-> <<df[i].row>>]]
      ELSE LET keys == SortKeys({GroupKey(layout, df[i]) : i \in 1..Len(df)})
           IN [j \in 1..Len(keys) |->
                 LET grp == SelectSeq(df, LAMBDA x : GroupKey(layout, x) = keys[j])
                 IN [dir |-> DirOf(layout, grp[1]),
                     name |-> FileNameOf(layout, grp[1], run_ts, fmt),
                     rows |-> [n \in 1..Len(grp) |-> grp[n].row]]]

\* _save without its final else branch: any format tag is written
SaveAnyFormat(fmt, rows) == Ok([fmt |-> fmt, rows |-> rows])

\* Storage._save: the content written, or the ValueError of an unsupported fmt
_save(fmt, rows) ==
    IF fmt = "parquet" THEN Ok([fmt |-> "parquet", rows |-> rows])
    ELSE IF fmt = "csv" THEN Ok([fmt |-> "csv", rows |-> rows])
    ELSE IF fmt = "json" THEN Ok([fmt |-> "json", rows |-> rows])
    ELSE Raise("ValueError")

PutFile(fs, path, content) ==
    [p \in DOMAIN fs \cup {path} |-> IF p = path THEN content ELSE fs[p]]

\* the body of a layout branch from target i on: mkdir, then _save, per target;
\* an error leaves what was done so far and ends the call
RECURSIVE SaveFrom(_, _, _, _, _, _)
SaveFrom(targets, i, fmt, fs, ds, saved) ==
    IF i > Len(targets)
      THEN [outcome |-> "returned", files |-> fs, dirs |-> ds, saved |-> saved]
    ELSE LET tg == targets[i]
             ds2 == MkdirParents(ds, tg.dir)
             path == JoinPath(base_path, tg.dir, Len(tg.dir)) \o "/" \o tg.name
             res == _save(fmt, tg.rows)
         IN IF ~res.ok
              THEN [outcome |-> res.err, files |-> fs, dirs |-> ds2, saved |-> saved]
              ELSE SaveFrom(targets, i + 1, fmt, PutFile(fs, path, res.v), ds2,
                            Append(saved, path))

SupportedLayouts == {"date", "date_country", "country_date", "hive_compact", "city_date"}

\* index of the first record whose formatted_record raises, 0 when none does
FirstFailing(recs) ==
    IF \E i \in 1..Len(recs) : ~formatted_record(recs[i]).ok
      THEN CHOOSE i \in 1..Len(recs) :
             /\ ~formatted_record(recs[i]).ok
             /\ \A j \in 1..(i - 1) : formatted_record(recs[j]).ok
      ELSE 0

\* Storage.write(records) on a Storage(fmt, layout) at clock instant t, over
\* the file system (fs, ds): [outcome, files, dirs, saved]
write(fmt, layout, recs, t, fs, ds) ==
    IF recs = <<>>
      THEN [outcome |-> "returned", files |-> fs, dirs |-> ds, saved |-> <<>>]
    ELSE IF FirstFailing(recs) # 0
      THEN [outcome |-> formatted_record(recs[FirstFailing(recs)]).err,
            files |-> fs, dirs |-> ds, saved |-> <<>>]
    ELSE LET data == [i \in 1..Len(recs) |-> formatted_record(recs[i]).v]
             df == DropNa(data)
             run_ts == run_ts_at(t)
         IN IF layout \in SupportedLayouts
              THEN SaveFrom(Targets(layout, df, run_ts, fmt), 1, fmt, fs, ds, <<>>)
              ELSE [outcome |-> "ValueError", files |-> fs, dirs |-> ds, saved |-> <<>>]

(* ------------------------------- state --------------------------------- *)

VARIABLES
    max_retries,          \* OpenWeatherClient.max_retries (config api.max_retries)
    cities,               \* valid_cities_list of main.py
    idx,                  \* position of the ingestion loop in valid_cities_list
    pc,                   \* where the program (or the caller of Storage) stands
    attempt,              \* loop variable of fetch_weather's retry loop
    attempts,             \* HTTP calls made by the current / last fetch_weather
    sleeps,               \* backoff sleeps of the current / last fetch_weather
    response,             \* parsed body of the last successful HTTP call
    raw,                  \* what the last fetch_weather returned to main
    fetchResult,          \* how the last fetch_weather ended ("" while running)
    fetched,              \* positions of the cities fetch_weather was called for
    exhausted,            \* positions of the cities whose fetch_weather raised
    success_count, failed_cities_count, failed_cities, records,
    fmt, layout,          \* Storage.fmt, Storage.layout
    files, dirs,          \* the file system under base_path
    now,                  \* wall clock, half seconds since the epoch
    writeLog,             \* one entry per finished Storage.write call
    call,                 \* the last direct call of a pure method, with its arguments
    result                \* what that call returned

vars == <<max_retries, cities, idx, pc, attempt, attempts, sleeps, response, raw,
          fetchResult, fetched, exhausted, success_count, failed_cities_count, failed_cities, records,
          fmt, layout, files, dirs, now, writeLog, call, result>>

fetchVars == <<attempt, attempts, sleeps, response, raw, fetchResult, fetched,
               exhausted>>
mainVars == <<max_retries, cities, idx, success_count, failed_cities_count,
              failed_cities>>
fsVars == <<files, dirs, now, writeLog>>
pureVars == <<call, result>>

(* ------------------------------ inputs --------------------------------- *)

\* config["cities"] entries that passed validate_city
CityPairs == {[name |-> "Madrid", country |-> "es"],
              [name |-> "Toledo", country |-> "US"]}

\* str.upper() on the country codes of CityPairs
Upper(s) == CASE s = "es" -> "ES" [] OTHER -> s

RECURSIVE SeqsUpTo(_, _)
SeqsUpTo(S, n) ==
    IF n = 0 THEN {<<>>}
    ELSE LET shorter == SeqsUpTo(S, n - 1)
         IN shorter \cup {Append(q, x) : q \in shorter, x \in S}

\* epoch seconds of 2024-01-05T10:00:00Z and 2024-02-10T08:00:00Z, and of a
\* sunrise (07:30:00Z) and a sunset (17:00:00Z) of 2024-01-05
Dt1 == 19727 * 86400 + 10 * 3600
Dt2 == 19763 * 86400 + 8 * 3600
Sunrise1 == 19727 * 86400 + 7 * 3600 + 30 * 60
Sunset1 == 19727 * 86400 + 17 * 3600

FullBody(dt) ==
    JDict([dt |-> JInt(dt), timezone |-> JInt(3600),
           weather |-> JList(<<JDict([main |-> JStr("Clouds")])>>),
           main |-> JDict([temp |-> JInt(20)]),
           wind |-> JDict([deg |-> JInt(90)]),
           sys |-> JDict([sunrise |-> JInt(Sunrise1), sunset |-> JInt(Sunset1)])])

Without(body, key) == JDict([k \in DOMAIN body.v \ {key} |-> body.v[k]])
WithoutIn(body, sect, key) ==
    JDict([k \in DOMAIN body.v |->
             IF k = sect THEN Without(body.v[k], key) ELSE body.v[k]])

\* 2xx bodies the API may answer with: complete ones, and ones with a field
\* (or everything) absent
Bodies ==
    {FullBody(Dt1),
     Without(FullBody(Dt2), "dt"), Without(FullBody(Dt2), "timezone"),
     WithoutIn(FullBody(Dt1), "sys", "sunrise"),
     WithoutIn(FullBody(Dt1), "sys", "sunset"),
     WithoutIn(FullBody(Dt1), "main", "temp"),
     JDict(<<>>)}

(* ------------------------ main.py: ingestion --------------------------- *)

Init ==
    /\ max_retries \in 0..MaxRetries
    /\ cities \in SeqsUpTo(CityPairs, MaxCities)
    /\ idx = 1
    /\ pc = "loop"
    /\ attempt = 0 /\ attempts = 0 /\ sleeps = 0
    /\ response = JNull /\ raw = JNull
    /\ fetchResult = "" /\ fetched = <<>> /\ exhausted = <<>>
    /\ success_count = 0 /\ failed_cities_count = 0
    /\ failed_cities = <<>> /\ records = <<>>
    /\ fmt = "" /\ layout = ""
    /\ files = <<>> /\ dirs = {}
    /\ now = 0
    /\ writeLog = <<>>
    /\ call = [fn |-> "none"] /\ result = JNull

\* the WeatherRecord(...) call of the loop body: [ok, err, v]
BuildRecord(body, city_name, country_code, units) ==
    LET ts == fromtimestamp(get_field(body, <<K("dt")>>, JNull))
        sr == fromtimestamp(get_field(body, <<K("sys"), K("sunrise")>>, JNull))
        ss == fromtimestamp(get_field(body, <<K("sys"), K("sunset")>>, JNull))
    IN IF ~ts.ok THEN Raise(ts.err)
       ELSE IF ~sr.ok THEN Raise(sr.err)
       ELSE IF ~ss.ok THEN Raise(ss.err)
       ELSE Ok(WeatherRecord(
                 JStr(city_name), JStr(country_code), ts.v,
                 get_field(body, <<K("timezone")>>, JNull),
                 get_field(body, <<K("weather"), I(0), K("main")>>, JNull),
                 get_field(body, <<K("main"), K("temp")>>, JNull),
                 get_field(body, <<K("wind"), K("deg")>>, JNull),
                 sr.v, ss.v, units))

ClientUnits == "metric"

CityKey(c) == Upper(c.country) \o "." \o c.name

\* except branch of the loop body
RecordFailure ==
    /\ failed_cities' = Append(failed_cities, CityKey(cities[idx]))
    /\ failed_cities_count' = failed_cities_count + 1
    /\ UNCHANGED <<records, success_count>>

\* the loop takes the next city and calls client.fetch_weather
StartCity ==
    /\ pc = "loop" /\ idx <= Len(cities)
    /\ pc' = "fetch"
    /\ attempt' = 1 /\ attempts' = 0 /\ sleeps' = 0
    /\ fetchResult' = ""
    /\ fetched' = Append(fetched, idx)
    /\ UNCHANGED <<pureVars, response, raw, exhausted, mainVars, records, fmt, layout, fsVars>>

\* AttemptFails with the backoff sleep taken after the final attempt too
AttemptFailsSleepsAlways ==
    /\ pc = "fetch" /\ attempt <= max_retries
    /\ attempts' = attempts + 1
    /\ sleeps' = sleeps + 1
    /\ attempt' = attempt + 1
    /\ UNCHANGED <<pureVars, pc, response, raw, fetchResult, fetched, exhausted, mainVars,
                   records, fmt, layout, fsVars>>

\* one iteration of the retry loop whose HTTP call raises RequestException
AttemptFails ==
    /\ pc = "fetch" /\ attempt <= max_retries
    /\ attempts' = attempts + 1
    /\ sleeps' = IF attempt < max_retries THEN sleeps + 1 ELSE sleeps
    /\ attempt' = attempt + 1
    /\ UNCHANGED <<pureVars, pc, response, raw, fetchResult, fetched, exhausted, mainVars, records, fmt, layout, fsVars>>

\* Exhausted with the RuntimeError escaping the loop body: the run ends
ExhaustedAborts ==
    /\ pc = "fetch" /\ attempt > max_retries
    /\ fetchResult' = "RuntimeError"
    /\ exhausted' = Append(exhausted, idx)
    /\ pc' = "aborted"
    /\ UNCHANGED <<pureVars, max_retries, cities, idx, attempt, attempts, sleeps, response, raw,
                   fetched, success_count, failed_cities_count, failed_cities,
                   records, fmt, layout, fsVars>>

\* the retry loop is over: fetch_weather raises RuntimeError, main records the
\* city as failed and goes on
Exhausted ==
    /\ pc = "fetch" /\ attempt > max_retries
    /\ fetchResult' = "RuntimeError"
    /\ exhausted' = Append(exhausted, idx)
    /\ RecordFailure
    /\ idx' = idx + 1
    /\ pc' = "loop"
    /\ UNCHANGED <<pureVars, max_retries, cities, attempt, attempts, sleeps, response, raw,
                   fetched, fmt, layout, fsVars>>

\* AttemptSucceeds with one more backoff sleep before the body is returned
AttemptSucceedsSleeps(body) ==
    /\ pc = "fetch" /\ attempt <= max_retries
    /\ attempts' = attempts + 1
    /\ sleeps' = sleeps + 1
    /\ response' = body
    /\ raw' = body
    /\ fetchResult' = "returned"
    /\ LET rec == BuildRecord(body, cities[idx].name, Upper(cities[idx].country),
                              ClientUnits)
       IN IF rec.ok
            THEN /\ records' = Append(records, rec.v)
                 /\ success_count' = success_count + 1
                 /\ UNCHANGED <<failed_cities, failed_cities_count>>
            ELSE RecordFailure
    /\ idx' = idx + 1
    /\ pc' = "loop"
    /\ UNCHANGED <<pureVars, max_retries, cities, attempt, fetched, exhausted,
                   fmt, layout, fsVars>>

\* one iteration whose HTTP call answers 2xx with body: fetch_weather returns
\* it, and main builds the record
AttemptSucceeds(body) ==
    /\ pc = "fetch" /\ attempt <= max_retries
    /\ attempts' = attempts + 1
    /\ response' = body
    /\ raw' = body
    /\ fetchResult' = "returned"
    /\ LET rec == BuildRecord(body, cities[idx].name, Upper(cities[idx].country),
                              ClientUnits)
       IN IF rec.ok
            THEN /\ records' = Append(records, rec.v)
                 /\ success_count' = success_count + 1
                 /\ UNCHANGED <<failed_cities, failed_cities_count>>
            ELSE RecordFailure
    /\ idx' = idx + 1
    /\ pc' = "loop"
    /\ UNCHANGED <<pureVars, max_retries, cities, attempt, sleeps, fetched, exhausted,
                   fmt, layout, fsVars>>

FmtTags == {"csv", "JSON", "parquet", "xml"}
LayoutTags == {"date", "date_country", "country_date", "Hive_Compact",
               "city_date", "flat"}

\* Storage.__init__ with the configured tags
StorageNew(f, l) ==
    /\ fmt' = Lower(f)
    /\ layout' = Lower(l)

\* the loop is over: main constructs the Storage
EndLoop(f, l) ==
    /\ pc = "loop" /\ idx > Len(cities)
    /\ StorageNew(f, l)
    /\ pc' = "storage"
    /\ UNCHANGED <<pureVars, fetchVars, mainVars, records, fsVars>>

\* one Storage.write(records) call, start to end
DoWrite ==
    LET res == write(fmt, layout, records, now, files, dirs)
    IN /\ files' = res.files
       /\ dirs' = res.dirs
       /\ writeLog' = Append(writeLog, [outcome |-> res.outcome, saved |-> res.saved,
                                        run_ts |-> run_ts_at(now),
                                        before |-> DOMAIN files])

\* storage.write(records) of main, then the summary; an error ends the program
MainWrite ==
    /\ pc = "storage"
    /\ DoWrite
    /\ pc' = IF writeLog'[Len(writeLog')].outcome = "returned" THEN "done" ELSE "aborted"
    /\ UNCHANGED <<pureVars, fetchVars, mainVars, records, fmt, layout, now>>

Next ==
    \/ StartCity
    \/ AttemptFails
    \/ Exhausted
    \/ \E body \in Bodies : AttemptSucceeds(body)
    \/ \E f \in FmtTags, l \in LayoutTags : EndLoop(f, l)
    \/ MainWrite

Spec == Init /\ [][Next]_vars

(* ------------------- Storage called by a direct caller ----------------- *)

Datetime(y, mo, d, h, mi, sec) ==
    JDt([year |-> y, month |-> mo, day |-> d, hour |-> h, minute |-> mi, second |-> sec])

T1a == Datetime(2024, 1, 5, 10, 0, 0)
T1b == Datetime(2024, 1, 5, 23, 30, 0)
T2 == Datetime(2024, 2, 10, 8, 0, 0)
\* a datetime that pandas cannot hold as datetime64[ns]
TFar == Datetime(2300, 1, 1, 0, 0, 0)

FullRecord(city, country, ts) ==
    WeatherRecord(JStr(city), JStr(country), ts, JInt(3600), JStr("Clouds"),
                  JInt(20), JInt(90), T1a, T1b, "metric")

\* WeatherRecords with every field present and a timestamp pandas can hold
ValidRecords ==
    {FullRecord("Madrid", "ES", T1a), FullRecord("Madrid", "ES", T1b),
     FullRecord("Madrid", "ES", T2), FullRecord("Toledo", "ES", T1a),
     FullRecord("Toledo", "US", T1a)}

\* WeatherRecords whose observation timestamp is absent or out of range
BadTimestampRecords ==
    {FullRecord("Madrid", "ES", JNull), FullRecord("Madrid", "ES", TFar)}

\* WeatherRecords with a valid timestamp and one other field absent
GapRecords ==
    LET r == FullRecord("Toledo", "US", T2)
    IN {[r EXCEPT !.timezone_offset = JNull],
        [r EXCEPT !.wind_direction_deg = JNull],
        [r EXCEPT !.sunrise = JNull],
        [r EXCEPT !.sunset = JNull],
        [r EXCEPT !.temperature_current = JNull]}

RecordSet == ValidRecords \cup BadTimestampRecords \cup GapRecords

InitStorage ==
    /\ max_retries = 0 /\ cities = <<>> /\ idx = 1
    /\ pc = "batch"
    /\ attempt = 0 /\ attempts = 0 /\ sleeps = 0
    /\ response = JNull /\ raw = JNull
    /\ fetchResult = "" /\ fetched = <<>> /\ exhausted = <<>>
    /\ success_count = 0 /\ failed_cities_count = 0
    /\ failed_cities = <<>> /\ records = <<>>
    /\ fmt = "" /\ layout = ""
    /\ files = <<>> /\ dirs = {}
    /\ now = 0
    /\ writeLog = <<>>
    /\ call = [fn |-> "none"] /\ result = JNull

\* the caller puts one more WeatherRecord into the batch
AddRecord(r) ==
    /\ pc = "batch" /\ Len(records) < MaxBatch
    /\ records' = Append(records, r)
    /\ UNCHANGED <<pureVars, fetchVars, mainVars, pc, fmt, layout, fsVars>>

\* the caller constructs Storage(base_path, f, l)
NewStorage(f, l) ==
    /\ pc = "batch"
    /\ StorageNew(f, l)
    /\ pc' = "ready"
    /\ UNCHANGED <<pureVars, fetchVars, mainVars, records, fsVars>>

\* the caller calls storage.write(records) at clock instant t; the first call
\* is the origin of time
CallWrite(t) ==
    /\ pc = "ready" /\ Len(writeLog) < MaxWrites
    /\ t >= now /\ (writeLog = <<>> => t = now)
    /\ now' = t
    /\ LET res == write(fmt, layout, records, t, files, dirs)
       IN /\ files' = res.files
          /\ dirs' = res.dirs
          /\ writeLog' = Append(writeLog, [outcome |-> res.outcome, saved |-> res.saved,
                                           run_ts |-> run_ts_at(t),
                                           before |-> DOMAIN files])
    /\ UNCHANGED <<pureVars, fetchVars, mainVars, pc, records, fmt, layout>>

NextStorage ==
    \/ \E r \in RecordSet : AddRecord(r)
    \/ \E f \in FmtTags, l \in LayoutTags : NewStorage(f, l)
    \/ \E t \in 0..MaxClock : CallWrite(t)

SpecStorage == InitStorage /\ [][NextStorage]_vars

(* ------------------------ claims: fetch and loop ----------------------- *)

Min(a, b) == IF a < b THEN a ELSE b

\* C1: with an attempt limit N >= 1 and every HTTP call failing, fetch_weather
\* sleeps once after each failed attempt but the N-th, and when it raises it
\* has made exactly N attempts and N-1 sleeps; the failure raised is the one
\* recorded for that city.
C1_AllFailing ==
    /\ (pc = "fetch" /\ max_retries >= 1) =>
          /\ attempts <= max_retries
          /\ sleeps = Min(attempts, max_retries - 1)
    /\ (fetchResult = "RuntimeError" /\ max_retries >= 1) =>
          /\ attempts = max_retries
          /\ sleeps = max_retries - 1
          /\ exhausted # <<>>
          /\ failed_cities # <<>>
          /\ failed_cities[Len(failed_cities)]
               = CityKey(cities[exhausted[Len(exhausted)]])

C1_Witness ==
    /\ fetchResult = "RuntimeError"
    /\ max_retries = MaxRetries
    /\ attempts >= 2 /\ sleeps >= 1

\* C2: when the k-th HTTP call is the first to succeed (attempt is k then),
\* fetch_weather has made k attempts and k-1 sleeps, k is within the limit, the
\* value returned is the body of that response, and nothing more is attempted
\* or slept for that call afterwards.
C2_SuccessAtK ==
    /\ [](fetchResult = "returned" =>
            /\ attempts = attempt /\ sleeps = attempt - 1
            /\ 1 <= attempt /\ attempt <= max_retries
            /\ raw = response)
    /\ [][(fetchResult = "returned" /\ fetchResult' = "returned") =>
            (attempts' = attempts /\ sleeps' = sleeps /\ raw' = raw)]_vars

C2_Witness ==
    /\ fetchResult = "returned"
    /\ attempts = 2 /\ sleeps = 1
    /\ raw = FullBody(Dt1)

\* C3: every validated city is fetched exactly once, in order; a city whose
\* fetch_weather raised is in failed_cities and the loop went on; each finished
\* city is counted once, as succeeded or as failed; the run ends only after
\* the last city, and a fetch failure never ends it.
C3_FailureIsolated ==
    /\ fetched = [i \in 1..(IF pc = "fetch" THEN idx ELSE idx - 1) |-> i]
    /\ success_count + failed_cities_count = idx - 1
    /\ Len(records) = success_count
    /\ Len(failed_cities) = failed_cities_count
    /\ \A j \in 1..Len(exhausted) :
          \E n \in 1..Len(failed_cities) :
             failed_cities[n] = CityKey(cities[exhausted[j]])
    /\ (pc \in {"storage", "done", "aborted"}) =>
          /\ idx = Len(cities) + 1
          /\ fetched = [i \in 1..Len(cities) |-> i]
    /\ (pc = "aborted") => writeLog # <<>>

C3_Witness ==
    /\ pc = "storage"
    /\ Len(cities) = 2
    /\ exhausted = <<1>>
    /\ fetched = <<1, 2>>
    /\ success_count = 1 /\ failed_cities_count = 1

\* C4: a city is counted as failed only when its fetch_weather raised, and
\* every fetch_weather that returned produced a record, whichever fields the
\* body lacks.
C4_RecordWheneverFetched ==
    /\ failed_cities_count = Len(exhausted)
    /\ success_count = (idx - 1) - Len(exhausted)

(* --------------------------- claims: Storage --------------------------- *)

Range(q) == {q[i] : i \in DOMAIN q}

SupportedFmt == fmt \in {"csv", "json", "parquet"}
SupportedLayout ==
    layout \in {"date", "date_country", "country_date", "hive_compact", "city_date"}

\* the observation timestamp is present and pandas can hold it
ValidTimestamp(r) ==
    r.timestamp.t = "datetime" /\ r.timestamp.v.year \in 1678..2261

\* the fields formatted_record derives a text from, the timestamp aside
DerivedFieldsPresent(r) ==
    /\ r.timezone_offset.t = "int" /\ r.wind_direction_deg.t = "int"
    /\ r.sunrise.t = "datetime" /\ r.sunset.t = "datetime"

\* the rows of the files call i saved
RowsSavedBy(i) ==
    UNION {Range(files[p].rows) : p \in Range(writeLog[i].saved)}

\* row is the output row of record r: its identity and its pass-through cells
IsRowOf(row, r) ==
    /\ row.City = r.city /\ row.Country = r.country
    /\ row.Timestamp.v = <<r.timestamp.v.day, r.timestamp.v.month, r.timestamp.v.year,
                           r.timestamp.v.hour, r.timestamp.v.minute,
                           r.timestamp.v.second>>
    /\ row.Weather = r.weather
    /\ row.Temperature_Current = r.temperature_current

\* C5: a record whose observation timestamp is absent or unparseable never
\* makes write raise; it is left out of every file while the other records
\* are written, and a batch of such records alone creates no file and no
\* directory.
C5_BadTimestampSkipped ==
    (pc = "ready" /\ SupportedFmt /\ SupportedLayout
       /\ \A k \in DOMAIN records : DerivedFieldsPresent(records[k]))
    => \A i \in DOMAIN writeLog :
          /\ writeLog[i].outcome = "returned"
          /\ \A row \in RowsSavedBy(i) :
                \E k \in DOMAIN records :
                   ValidTimestamp(records[k]) /\ IsRowOf(row, records[k])
          /\ \A k \in DOMAIN records :
                ValidTimestamp(records[k]) =>
                   \E row \in RowsSavedBy(i) : IsRowOf(row, records[k])
          /\ (\A k \in DOMAIN records : ~ValidTimestamp(records[k]))
                => (files = <<>> /\ dirs = {})

\* C6 as claimed: a write call configured with an unsupported format or layout
\* tag raises the configuration error, with no file written.
C6_AlwaysConfigError ==
    (pc = "ready" /\ ~(SupportedFmt /\ SupportedLayout))
    => \A i \in DOMAIN writeLog :
          writeLog[i].outcome = "ValueError" /\ writeLog[i].saved = <<>>

\* C6 as amended: a Storage whose format or layout tag (lower-cased) is
\* unsupported never writes a file.  Its write raises the configuration error
\* exactly when the batch is not empty, every record formats, and the layout
\* is unsupported or some record has a valid timestamp; an empty batch, or an
\* unsupported format with no record left after the timestamp filter, returns
\* without error, and a record that does not format raises its own error.
C6_ConfigErrorBeforeAnyFile ==
    (pc = "ready" /\ ~(SupportedFmt /\ SupportedLayout))
    => /\ files = <<>>
       /\ \A i \in DOMAIN writeLog :
             /\ writeLog[i].saved = <<>>
             /\ writeLog[i].outcome = "ValueError"
                  <=> /\ records # <<>>
                      /\ \A k \in DOMAIN records :
                            /\ records[k].timestamp.t = "datetime"
                            /\ DerivedFieldsPresent(records[k])
                      /\ \/ ~SupportedLayout
                         \/ \E k \in DOMAIN records : ValidTimestamp(records[k])

C6_Witness ==
    /\ pc = "ready" /\ fmt = "xml" /\ layout = "date_country"
    /\ Len(records) = 2
    /\ \E i \in DOMAIN writeLog : writeLog[i].outcome = "ValueError"
    /\ dirs # {}

\* year=Y/month=M/day=D of the record's observation timestamp
ExpectedDateDir(r) ==
    "year=" \o ToString(r.timestamp.v.year)
    \o "/month=" \o ToString(r.timestamp.v.month)
    \o "/day=" \o ToString(r.timestamp.v.day)

\* the path the layout table gives record r in a call with run timestamp ts
ExpectedPath(r, ts) ==
    LET country == r.country.v
        city == r.city.v
        d == ExpectedDateDir(r)
    IN base_path \o "/" \o
       (CASE layout = "date" -> d \o "/weather_" \o ts
          [] layout = "date_country" -> d \o "/" \o country \o "_weather_" \o ts
          [] layout = "country_date" -> country \o "/" \o d \o "/weather_" \o ts
          [] layout = "hive_compact" ->
               d \o "/" \o country \o "/" \o city \o "/" \o country \o "_" \o city \o "_" \o ts
          [] layout = "city_date" -> city \o "/" \o d \o "/weather_" \o ts)
       \o "." \o fmt

DifferentCities(r1, r2) == r1.city # r2.city \/ r1.country # r2.country

\* the records of the batch that reach the output
Survivors == {k \in DOMAIN records : ValidTimestamp(records[k])}

DateOfRecord(r) == <<r.timestamp.v.year, r.timestamp.v.month, r.timestamp.v.day>>

\* the two records share the group key of the configured grouping layout
SameGroupKey(r1, r2) ==
    /\ DateOfRecord(r1) = DateOfRecord(r2)
    /\ (layout \in {"date_country", "country_date"} => r1.country = r2.country)
    /\ (layout = "city_date" => r1.city = r2.city)

\* the files saved by call i that hold the row of record r
FilesHolding(i, r) ==
    {p \in Range(writeLog[i].saved) : formatted_record(r).v \in Range(files[p].rows)}

\* C8: with a grouping layout, each record with a valid timestamp is written to
\* the one file the layout table gives for its key, and two records are in the
\* same file exactly when they share the layout's group key.
C8_GroupedByLayoutKey ==
    (pc = "ready" /\ layout \in {"date", "date_country", "country_date", "city_date"})
    => \A i \in DOMAIN writeLog :
          writeLog[i].outcome = "returned" =>
             \A k1, k2 \in Survivors :
                /\ FilesHolding(i, records[k1])
                     = {ExpectedPath(records[k1], writeLog[i].run_ts)}
                /\ (FilesHolding(i, records[k1]) \cap FilesHolding(i, records[k2]) # {})
                     <=> SameGroupKey(records[k1], records[k2])

C8_Witness ==
    /\ pc = "ready" /\ layout = "date_country" /\ Len(records) = 2
    /\ ValidTimestamp(records[1]) /\ ValidTimestamp(records[2])
    /\ records[1].city # records[2].city
    /\ SameGroupKey(records[1], records[2])
    /\ \E i \in DOMAIN writeLog :
          /\ writeLog[i].outcome = "returned"
          /\ Len(writeLog[i].saved) = 1
          /\ Len(files[writeLog[i].saved[1]].rows) = 2

\* C9: of two successive write calls with the same batch and configuration,
\* the second writes to paths that the first did not write, so none of the
\* first call's files is overwritten.
C9_SecondWriteNeverOverwrites ==
    pc = "ready" =>
       \A i \in DOMAIN writeLog :
          (i + 1 \in DOMAIN writeLog
             /\ writeLog[i].outcome = "returned"
             /\ writeLog[i + 1].outcome = "returned")
          => /\ Range(writeLog[i].saved) \cap Range(writeLog[i + 1].saved) = {}
             /\ Range(writeLog[i + 1].saved) \cap writeLog[i + 1].before = {}

\* C10: a batch whose records all have a valid observation timestamp is
\* written whatever other fields are absent: write returns and every record
\* has its row in a saved file, an absent field being a null cell.
C10_FieldGapsWritten ==
    (pc = "ready" /\ SupportedFmt /\ SupportedLayout
       /\ \A k \in DOMAIN records : ValidTimestamp(records[k]))
    => \A i \in DOMAIN writeLog :
          /\ writeLog[i].outcome = "returned"
          /\ \A k \in DOMAIN records :
                \E row \in RowsSavedBy(i) : IsRowOf(row, records[k])

\* the number of rows in the files at the paths ps
RECURSIVE RowCount(_)
RowCount(ps) ==
    IF ps = {} THEN 0
    ELSE LET p == CHOOSE q \in ps : TRUE
         IN Len(files[p].rows) + RowCount(ps \ {p})

\* C14: no record is lost or duplicated by a write: after a write call that
\* returns, under each of the five layouts, every record of the batch with a
\* valid observation timestamp is a row of exactly one file written by that
\* call, and the rows of the files written add up to the number of such
\* records, also when several records share city, country and date.
C14_NoRecordLostOrDuplicated ==
    (pc = "ready" /\ SupportedLayout)
    => \A i \in DOMAIN writeLog :
          writeLog[i].outcome = "returned" =>
             /\ \A k \in Survivors :
                   Cardinality(FilesHolding(i, records[k])) = 1
             /\ RowCount(Range(writeLog[i].saved)) = Cardinality(Survivors)

(* ------------- pure methods called by a direct caller ------------------ *)

\* nested values a caller extracts from
Roots ==
    {JDict([a |-> JDict([b |-> JInt(5)])]),
     JDict([a |-> JDict(<<>>)]),
     JDict([a |-> JList(<<JInt(1), JInt(2)>>)]),
     JDict([a |-> JList(<<JInt(1)>>)]),
     JList(<<JDict([a |-> JInt(7)]), JInt(3)>>),
     FullBody(Dt1),
     JInt(5), JStr("a"), JNull}

\* keys and indices of the paths
Segments == {K("a"), K("b"), K("weather"), K("main"), I(0), I(1), I(5), I(-1)}

Defaults == {JNull, JInt(-1)}

\* timezone offsets in seconds: the quarter hours, and the seconds around an
\* hour boundary
Offsets ==
    {q * 900 : q \in (-MaxOffsetQuarters)..MaxOffsetQuarters}
      \cup {h * 3600 + e : h \in {-1, 0, 1}, e \in {-1, 1}}

InitPure ==
    /\ max_retries = 0 /\ cities = <<>> /\ idx = 1
    /\ pc = "pure"
    /\ attempt = 0 /\ attempts = 0 /\ sleeps = 0
    /\ response = JNull /\ raw = JNull
    /\ fetchResult = "" /\ fetched = <<>> /\ exhausted = <<>>
    /\ success_count = 0 /\ failed_cities_count = 0
    /\ failed_cities = <<>> /\ records = <<>>
    /\ fmt = "" /\ layout = ""
    /\ files = <<>> /\ dirs = {}
    /\ now = 0
    /\ writeLog = <<>>
    /\ call = [fn |-> "none"] /\ result = JNull

\* each behaviour is one call: the methods keep no state between calls
notPure == <<max_retries, cities, idx, attempt, attempts, sleeps, response, raw,
             fetchResult, fetched, exhausted, success_count, failed_cities_count,
             failed_cities, records, fmt, layout, files, dirs, now, writeLog>>

\* client.get_field(d, *keys, default=default)
CallGetField(d, keys, default) ==
    /\ pc = "pure"
    /\ call' = [fn |-> "get_field", d |-> d, keys |-> keys, default |-> default]
    /\ result' = get_field(d, keys, default)
    /\ pc' = "returned"
    /\ UNCHANGED notPure

\* record.timezone_str() with timezone_offset = offset
CallTimezoneStr(offset) ==
    /\ pc = "pure"
    /\ call' = [fn |-> "timezone_str", offset |-> offset]
    /\ result' = timezone_str(JInt(offset))
    /\ pc' = "returned"
    /\ UNCHANGED notPure

\* record.wind_direction_compass() with wind_direction_deg = deg
CallWindDirectionCompass(deg) ==
    /\ pc = "pure"
    /\ call' = [fn |-> "wind_direction_compass", deg |-> deg]
    /\ result' = wind_direction_compass(JInt(deg))
    /\ pc' = "returned"
    /\ UNCHANGED notPure

NextPure ==
    \/ \E d \in Roots, keys \in SeqsUpTo(Segments, MaxPath), default \in Defaults :
          CallGetField(d, keys, default)
    \/ \E offset \in Offsets : CallTimezoneStr(offset)
    \/ \E deg \in 0..MaxDeg : CallWindDirectionCompass(deg)

SpecPure == InitPure /\ [][NextPure]_vars

(* ------------------------ claims: pure methods ------------------------- *)

\* the segment names a key of the mapping v or an in-range index of the list v
CanDescend(v, seg) ==
    \/ v.t = "dict" /\ seg.t = "str" /\ seg.v \in DOMAIN v.v
    \/ v.t = "list" /\ seg.t = "int" /\ seg.v \in 0..(Len(v.v) - 1)

Child(v, seg) == IF v.t = "dict" THEN v.v[seg.v] ELSE v.v[seg.v + 1]

\* the whole path can be descended from v
RECURSIVE Descendable(_, _)
Descendable(v, path) ==
    path = <<>> \/ (CanDescend(v, Head(path)) /\ Descendable(Child(v, Head(path)), Tail(path)))

\* the value at the end of a descendable path
RECURSIVE ValueAt(_, _)
ValueAt(v, path) ==
    IF path = <<>> THEN v ELSE ValueAt(Child(v, Head(path)), Tail(path))

\* C11: get_field returns the value reached by descending the whole path when
\* every segment is a key present in the current mapping or an in-range index
\* of the current sequence, and the caller's default otherwise; it always
\* returns.  So {"a":{"b":5}},a,b gives 5; {"a":{}},a,b gives the default;
\* {"a":[1,2]},a,1 gives 2; {"a":[1]},a,5 gives the default.
C11_GetFieldTotal ==
    call.fn = "get_field" =>
       /\ result = (IF Descendable(call.d, call.keys)
                      THEN ValueAt(call.d, call.keys) ELSE call.default)
       /\ (call.d = JDict([a |-> JDict([b |-> JInt(5)])]) /\ call.keys = <<K("a"), K("b")>>)
             => result = JInt(5)
       /\ (call.d = JDict([a |-> JDict(<<>>)]) /\ call.keys = <<K("a"), K("b")>>)
             => result = call.default
       /\ (call.d = JDict([a |-> JList(<<JInt(1), JInt(2)>>)]) /\ call.keys = <<K("a"), I(1)>>)
             => result = JInt(2)
       /\ (call.d = JDict([a |-> JList(<<JInt(1)>>)]) /\ call.keys = <<K("a"), I(5)>>)
             => result = call.default

C11_Witness ==
    /\ call.fn = "get_field"
    /\ call.d = JDict([a |-> JList(<<JInt(1)>>)])
    /\ call.keys = <<K("a"), I(5)>>
    /\ call.default = JInt(-1)
    /\ result = JInt(-1)

\* the label the timezone rule gives an offset: whole hours of the magnitude
LabelOfMagnitude(offset) ==
    LET N == Abs(offset) \div 3600 IN
    IF N = 0 THEN "UTC"
    ELSE "UTC" \o (IF offset > 0 THEN "+" ELSE "-") \o ToString(N)

\* C12: for every integer offset in seconds, timezone_str returns "UTC" when
\* the offset amounts to 0 whole hours, else "UTC+N" (positive) or "UTC-N"
\* (negative), N being the whole hours in the magnitude of the offset; 0 gives
\* UTC, 3600 gives UTC+1, -18000 gives UTC-5, and +s and -s give the same N.
C12_TimezoneLabel ==
    call.fn = "timezone_str" =>
       result = Ok(JStr(LabelOfMagnitude(call.offset)))

\* the table entry of compass point j, counted clockwise from North
PointName(j) == dirs16[(j % 16) + 1]

\* C13: for every integer wind direction d in 0..360 degrees,
\* wind_direction_compass returns the entry of the 16-point table at index
\* round(d / 22.5) mod 16, the compass point nearest to d (d is less than
\* 11.25 degrees from the point j * 22.5); 0 gives North, 45 Northeast,
\* 90 East and 360 wraps to North; the index is always within the table.
C13_NearestCompassPoint ==
    (call.fn = "wind_direction_compass" /\ call.deg \in 0..360) =>
       /\ result.ok
       /\ \E j \in 0..16 : /\ Abs(4 * call.deg - 90 * j) < 45
                           /\ result.v = JStr(PointName(j))
       /\ \E ix \in 0..15 : result.v = JStr(dirs16[ix + 1])
       /\ call.deg = 0 => result.v = JStr("North")
       /\ call.deg = 45 => result.v = JStr("Northeast")
       /\ call.deg = 90 => result.v = JStr("East")
       /\ call.deg = 180 => result.v = JStr("South")
       /\ call.deg = 270 => result.v = JStr("West")
       /\ call.deg = 360 => result.v = JStr("North")

C13_Witness ==
    /\ call.fn = "wind_direction_compass"
    /\ call.deg = 360
    /\ result = Ok(JStr("North"))

=============================================================================
